---------------------------- MODULE Spec2Model ----------------------------
(***************************************************************************)
(* A model of advection-rs: the 1D advection engine of src/simulation.rs   *)
(* (Descriptor, Scenario::new, Scenario::forward, the spatial stencils     *)
(* and the temporal integrators) and of the driver of src/body.rs          *)
(* (the UI thread's Body::show and the stepping thread of                  *)
(* Body::spawn_thread, which share an Arc<Mutex<Option<Scenario>>>).       *)
(*                                                                         *)
(* Numbers.  The program computes in f64: floating point, every operation  *)
(* rounded to nearest (ties to even).  The model computes in the same kind *)
(* of arithmetic at a narrower width: a value is sign * m * 10^e with a    *)
(* mantissa m of Prec decimal digits (or zero, which keeps its sign, as    *)
(* -0.0 does), every operation is rounded to nearest, ties to even, and    *)
(* the operations are applied in the order the source applies them.  A     *)
(* result below the smallest positive f64 (about 4.9e-324) underflows to   *)
(* zero, as in f64; subnormal precision and overflow to infinity are not   *)
(* modelled.  A division by zero gives the value NonFinite (inf or NaN).   *)
(*                                                                         *)
(* Panics.  An out-of-range slice index and a usize subtraction below zero *)
(* abort the call.  The model gives such an expression the value Panic,    *)
(* which every arithmetic operation propagates, so a call that would panic *)
(* yields Panic instead of a number.                                       *)
(***************************************************************************)
EXTENDS Integers, Sequences, FiniteSets, TLC

\* Decimal digits of the model's floating-point mantissa.
Prec == 3

RECURSIVE Pow10(_)
Pow10(k) == IF k <= 0 THEN 1 ELSE 10 * Pow10(k - 1)

RECURSIVE NumDigits(_)
NumDigits(m) == IF m < 10 THEN 1 ELSE 1 + NumDigits(m \div 10)

\* The two values that are not numbers.
Panic == [s |-> 0, m |-> -1, e |-> 0]
NonFinite == [s |-> 0, m |-> -2, e |-> 0]

\* The values of the model's f64: numbers (m >= 0), Panic and NonFinite.
F64 == [s : {0, 1}, m : Int, e : Int]

IsPanic(a) == a.m = -1
IsNumber(a) == a.m >= 0

\* Signed zero.
FZero(s) == [s |-> s, m |-> 0, e |-> 0]
F0 == FZero(0)

\* The arithmetic is defined as functions and used through the operators
\* below them (fadd(a, b) is f64_add[a, b]).

\* The decimal exponent below which an f64 is zero.
MIN_10_EXP == -324

\* Underflow: a rounded value r below 10^MIN_10_EXP is a zero of r's sign.
f64_flush(r) ==
    IF r.m > 0 /\ r.e + NumDigits(r.m) - 1 < MIN_10_EXP THEN FZero(r.s) ELSE r

\* sign * m * 10^e rounded to Prec digits, to nearest, ties to even.
f64_round[s \in {0, 1}, m \in Nat, e \in Int] ==
    IF m = 0 THEN FZero(s)
    ELSE LET nd == NumDigits(m) IN
         IF nd <= Prec
         THEN [s |-> s, m |-> m * Pow10(Prec - nd), e |-> e - (Prec - nd)]
         ELSE LET k  == nd - Prec
                  q  == m \div Pow10(k)
                  r  == m % Pow10(k)
                  up == 2 * r > Pow10(k) \/ (2 * r = Pow10(k) /\ q % 2 = 1)
                  q2 == IF up THEN q + 1 ELSE q
              IN  IF q2 = Pow10(Prec)
                  THEN [s |-> s, m |-> Pow10(Prec - 1), e |-> e + k + 1]
                  ELSE [s |-> s, m |-> q2, e |-> e + k]

\* The f64 nearest to sign * m * 10^e.
f64_norm[s \in {0, 1}, m \in Nat, e \in Int] == f64_flush(f64_round[s, m, e])

Norm(s, m, e) == f64_norm[s, m, e]

\* The literal m * 10^e.
Lit(m, e) == f64_norm[0, m, e]

\* What an operation on a and b gives when one of them is not a number.
f64_special[a \in F64, b \in F64] ==
    IF IsPanic(a) \/ IsPanic(b) THEN Panic ELSE NonFinite

f64_neg[a \in F64] == IF ~IsNumber(a) THEN a ELSE [a EXCEPT !.s = 1 - a.s]

fneg(a) == f64_neg[a]

f64_abs[a \in F64] == IF ~IsNumber(a) THEN a ELSE [a EXCEPT !.s = 0]

fabs(a) == f64_abs[a]

f64_add[a \in F64, b \in F64] ==
    IF ~IsNumber(a) \/ ~IsNumber(b) THEN f64_special[a, b]
    ELSE IF a.m = 0 /\ b.m = 0 THEN FZero(IF a.s = 1 /\ b.s = 1 THEN 1 ELSE 0)
    ELSE IF a.m = 0 THEN b
    ELSE IF b.m = 0 THEN a
    ELSE LET hi == IF a.e >= b.e THEN a ELSE b
             lo == IF a.e >= b.e THEN b ELSE a
             d  == hi.e - lo.e
         IN  IF d > Prec + 1 THEN hi
             ELSE LET mh  == hi.m * Pow10(d)
                      sum == (IF hi.s = 1 THEN -mh ELSE mh)
                             + (IF lo.s = 1 THEN -lo.m ELSE lo.m)
                  IN  IF sum = 0 THEN F0
                      ELSE IF sum < 0 THEN Norm(1, -sum, lo.e)
                      ELSE Norm(0, sum, lo.e)

fadd(a, b) == f64_add[a, b]

fsub(a, b) == f64_add[a, f64_neg[b]]

f64_mul[a \in F64, b \in F64] ==
    IF ~IsNumber(a) \/ ~IsNumber(b) THEN f64_special[a, b]
    ELSE Norm((a.s + b.s) % 2, a.m * b.m, a.e + b.e)

fmul(a, b) == f64_mul[a, b]

f64_div[a \in F64, b \in F64] ==
    IF ~IsNumber(a) \/ ~IsNumber(b) THEN f64_special[a, b]
    ELSE IF b.m = 0 THEN NonFinite
    ELSE LET num    == a.m * Pow10(Prec + 1)
             q      == num \div b.m
             sticky == IF num % b.m = 0 THEN 0 ELSE 1
         IN  Norm((a.s + b.s) % 2, 10 * q + sticky, a.e - b.e - Prec - 2)

fdiv(a, b) == f64_div[a, b]

\* f64::powi for the two exponents the source uses.
f64_powi[a \in F64, k \in {2, 3}] ==
    IF k = 2 THEN fmul(a, a) ELSE fmul(fmul(a, a), a)

powi(a, k) == f64_powi[a, k]

\* a <= b (IEEE comparison: -0.0 equals 0.0; false when one is not a number).
f64_le[a \in F64, b \in F64] == LET d == fsub(b, a) IN d.m = 0 \/ (d.m > 0 /\ d.s = 0)

fle(a, b) == f64_le[a, b]

\* f64::max(a, b).
f64_max[a \in F64, b \in F64] == IF fle(a, b) THEN b ELSE a

fmax(a, b) == f64_max[a, b]

\* f64::round (half away from zero) followed by `as usize`, which saturates:
\* a negative value gives 0 and a value too large gives the largest usize,
\* for which 10^9, above every length the model builds, stands.
f64_round_as_usize[a \in F64] ==
    IF a.m <= 0 \/ a.s = 1 THEN 0
    ELSE IF a.e + NumDigits(a.m) > 9 THEN Pow10(9)
    ELSE IF a.e >= 0 THEN a.m * Pow10(a.e)
    ELSE IF -a.e > Prec THEN 0
    ELSE LET k == -a.e
             q == a.m \div Pow10(k)
             r == a.m % Pow10(k)
         IN  IF 2 * r >= Pow10(k) THEN q + 1 ELSE q

round_as_usize(a) == f64_round_as_usize[a]

-----------------------------------------------------------------------------
(* Vectors (Vec<f64>, &[f64]) are sequences; the source's indices are 0-based. *)

\* usize subtraction a - b; -1 stands for a result below zero (a panic in a
\* debug build, a wrapped huge value in a release build).
usub(a, b) == IF a >= b THEN a - b ELSE -1

\* u[i]: the element, or Panic when i is not an index of u.
At(u, i) == IF 0 <= i /\ i < Len(u) THEN u[i + 1] ELSE Panic

\* vec![x; n]
vec(x, n) == [k \in 1..n |-> x]

\* let mut v = u.to_vec(); for i in 0..u.len() { v[i] = f(i) }; v
\* where f reads vectors other than v.
for_each(u, f) == <<>> \o [k \in 1..Len(u) |-> f[k - 1]]

\* 0..u.len()
Idx(u) == 0..(Len(u) - 1)

SpatialScheme == {"Central", "Upwind", "LaxWendroff", "ENO", "WENO", "CIP"}

TemporalScheme == {"ForwardEuler", "Rk2", "Rk3", "Rk4", "TvdRk2", "TvdRk3", "TvdRk4"}

\* struct Descriptor
Descriptor(ts, dt, dx, b, v, sp, tp) ==
    [time_scale |-> ts, delta_t |-> dt, delta_x |-> dx, bound |-> b, vel |-> v,
     spatial_scheme |-> sp, temporal_scheme |-> tp]

\* enum SchemeBuffer; g_grid is empty in the variant None.
SchemeBuffer_None == [kind |-> "None", g_grid |-> <<>>]
SchemeBuffer_CIP(g) == [kind |-> "CIP", g_grid |-> g]

discrete(x, desc) == round_as_usize(fdiv(x, desc.delta_x))

Min(a, b) == IF a <= b THEN a ELSE b

\* Scenario::new with the pulse's upper end included.
Scenario_new_closed(desc) ==
    LET n     == discrete(desc.bound, desc)
        lower == Min(discrete(Lit(5, -1), desc), n)
        upper == Min(discrete(Lit(1, 0), desc), n)
        u_grid == [k \in 1..n |->
                     IF lower <= k - 1 /\ k - 1 <= upper THEN Lit(1, 0) ELSE F0]
        scheme_buffer == IF desc.spatial_scheme = "CIP"
                         THEN SchemeBuffer_CIP(vec(F0, n))
                         ELSE SchemeBuffer_None
    IN  [desc |-> desc, u_grid |-> <<>> \o u_grid, scheme_buffer |-> scheme_buffer]

\* Scenario::new
Scenario_new(desc) ==
    LET n     == discrete(desc.bound, desc)
        lower == Min(discrete(Lit(5, -1), desc), n)
        upper == Min(discrete(Lit(1, 0), desc), n)
        u_grid == [k \in 1..n |->
                     IF lower <= k - 1 /\ k - 1 < upper THEN Lit(1, 0) ELSE F0]
        scheme_buffer == IF desc.spatial_scheme = "CIP"
                         THEN SchemeBuffer_CIP(vec(F0, n))
                         ELSE SchemeBuffer_None
    IN  [desc |-> desc, u_grid |-> <<>> \o u_grid, scheme_buffer |-> scheme_buffer]

\* p = -desc.vel * desc.delta_t
P(desc) == fmul(fneg(desc.vel), desc.delta_t)

st_forward(i, u, desc) ==
    LET len1 == usub(Len(u), 1) IN
    IF len1 < 0 THEN Panic
    ELSE IF 0 <= i /\ i < len1
    THEN fmul(fdiv(fsub(At(u, i + 1), At(u, i)), desc.delta_x), P(desc))
    ELSE F0

st_backward(i, u, desc) ==
    IF 1 <= i /\ i < Len(u)
    THEN fmul(fdiv(fsub(At(u, i), At(u, usub(i, 1))), desc.delta_x), P(desc))
    ELSE F0

\* st_central scaling by delta_t where the code scales by p.
st_central_dt(i, u, desc) ==
    IF ~(1 <= i) THEN F0
    ELSE IF usub(Len(u), 1) < 0 THEN Panic
    ELSE IF ~(i < usub(Len(u), 1)) THEN F0
    ELSE fmul(fdiv(fsub(At(u, i + 1), At(u, usub(i, 1))),
                   fmul(Lit(2, 0), desc.delta_x)),
              desc.delta_t)

st_central(i, u, desc) ==
    IF ~(1 <= i) THEN F0
    ELSE IF usub(Len(u), 1) < 0 THEN Panic
    ELSE IF i < usub(Len(u), 1)
    THEN LET dx == desc.delta_x
             grad_1 == fdiv(fsub(At(u, i + 1), At(u, usub(i, 1))),
                            fmul(Lit(2, 0), dx))
         IN  fmul(grad_1, P(desc))
    ELSE F0

\* st_upwind with the two branches exchanged.
st_upwind_swapped(i, u, desc) ==
    IF fle(F0, desc.vel) THEN st_forward(i, u, desc) ELSE st_backward(i, u, desc)

st_upwind(i, u, desc) ==
    IF fle(F0, desc.vel) THEN st_backward(i, u, desc) ELSE st_forward(i, u, desc)

st_lax_wendroff(i, u, desc) ==
    IF ~(1 <= i) THEN F0
    ELSE IF usub(Len(u), 1) < 0 THEN Panic
    ELSE IF i < usub(Len(u), 1)
    THEN LET dx == desc.delta_x
             p  == P(desc)
             grad_1 == fdiv(fsub(At(u, i + 1), At(u, usub(i, 1))),
                            fmul(Lit(2, 0), dx))
             grad_2 == fdiv(fadd(fsub(At(u, i + 1), fmul(Lit(2, 0), At(u, i))),
                                 At(u, usub(i, 1))),
                            fmul(fmul(Lit(2, 0), dx), dx))
         IN  fadd(fmul(grad_1, p), fmul(fmul(grad_2, p), p))
    ELSE F0

(* st_eno.  The closures d_1h, d_2m, d_3h: *)
eno_d_1h(u, dx, j) == fdiv(fsub(At(u, j + 1), At(u, j)), dx)

eno_d_2m(u, dx, j) ==
    fdiv(fsub(eno_d_1h(u, dx, j), eno_d_1h(u, dx, usub(j, 1))), fmul(Lit(2, 0), dx))

eno_d_3h(u, dx, j) ==
    fdiv(fsub(eno_d_2m(u, dx, j + 1), eno_d_2m(u, dx, j)), fmul(Lit(3, 0), dx))

\* q_1, q_2, q_3 for the decisions b_2 and b_3, and the result.
eno_q(i, u, desc, b_2, b_3) ==
    LET dx   == desc.delta_x
        u_p2 == At(u, i + 2)
        u_p1 == At(u, i + 1)
        u_0  == At(u, i)
        u_m1 == At(u, usub(i, 1))
        u_m2 == At(u, usub(i, 2))
        u_m3 == At(u, usub(i, 3))
        two   == Lit(2, 0)
        three == Lit(3, 0)
        q_1 == fdiv(fsub(u_0, u_m1), dx)
        q_2 == IF b_2
               THEN fdiv(fadd(fsub(u_0, fmul(two, u_m1)), u_m2), fmul(two, dx))
               ELSE fdiv(fadd(fsub(u_p1, fmul(two, u_0)), u_m1), fmul(two, dx))
        q_3 == IF b_2 /\ b_3
               THEN fdiv(fsub(fadd(fsub(u_0, fmul(three, u_m1)),
                                   fmul(three, u_m2)), u_m3),
                         fmul(three, dx))
               ELSE IF b_2 /\ ~b_3
               THEN fdiv(fsub(fadd(fsub(u_p1, fmul(three, u_0)),
                                   fmul(three, u_m1)), u_m2),
                         fmul(three, dx))
               ELSE IF ~b_2 /\ b_3
               THEN fdiv(fsub(fadd(fsub(u_p1, fmul(three, u_0)),
                                   fmul(three, u_m1)), u_m2),
                         fmul(fneg(Lit(6, 0)), dx))
               ELSE fdiv(fsub(fadd(fsub(u_p2, fmul(three, u_p1)),
                                   fmul(three, u_0)), u_m1),
                         fmul(fneg(Lit(6, 0)), dx))
    IN  fmul(fadd(fadd(q_1, q_2), q_3), P(desc))

\* b_3 from c_3 = |d_3h(l + 1)| - |d_3h(l)|; a c_3 that is not a number
\* (a panic while computing it) is the result.
eno_b_3(i, u, desc, b_2, c_3) ==
    IF ~IsNumber(c_3) THEN c_3 ELSE eno_q(i, u, desc, b_2, fle(F0, c_3))

\* l from b_2
eno_l(i, u, desc, b_2, l) ==
    eno_b_3(i, u, desc, b_2,
            fsub(fabs(eno_d_3h(u, desc.delta_x, l + 1)),
                 fabs(eno_d_3h(u, desc.delta_x, l))))

\* b_2 from c_2 = |d_2m(k + 1)| - |d_2m(k)|
eno_b_2(i, u, desc, k, c_2) ==
    IF ~IsNumber(c_2) THEN c_2
    ELSE eno_l(i, u, desc, fle(F0, c_2), IF fle(F0, c_2) THEN usub(k, 1) ELSE k)

\* k from b_1
eno_k(i, u, desc, k) ==
    eno_b_2(i, u, desc, k,
            fsub(fabs(eno_d_2m(u, desc.delta_x, k + 1)),
                 fabs(eno_d_2m(u, desc.delta_x, k))))

\* st_eno computing u.len() - 3 before it tests 3 <= i.
st_eno_eager(i, u, desc) ==
    IF usub(Len(u), 3) < 0 THEN Panic
    ELSE IF ~(3 <= i /\ i < usub(Len(u), 3)) THEN F0
    ELSE eno_k(i, u, desc, IF fle(F0, desc.vel) THEN usub(i, 1) ELSE i)

st_eno(i, u, desc) ==
    IF ~(3 <= i) THEN F0
    ELSE IF usub(Len(u), 3) < 0 THEN Panic
    ELSE IF ~(i < usub(Len(u), 3)) THEN F0
    ELSE eno_k(i, u, desc, IF fle(F0, desc.vel) THEN usub(i, 1) ELSE i)

(* st_weno.  The closure d_1l: *)
weno_d_1l(u, dx, j) == fdiv(fsub(At(u, j), At(u, usub(j, 1))), dx)

\* a_k = c / (s_k + 1e-6).powi(2)
weno_a(c, s_k) == fdiv(c, powi(fadd(s_k, Lit(1, -6)), 2))

\* w_1, w_2, w_3 and the result
weno_w(u_1, u_2, u_3, a_1, a_2, a_3, p) ==
    LET w_1 == fdiv(a_1, fadd(fadd(a_1, a_2), a_3))
        w_2 == fdiv(a_2, fadd(fadd(a_1, a_2), a_3))
        w_3 == fdiv(a_3, fadd(fadd(a_1, a_2), a_3))
    IN  fmul(fadd(fadd(fmul(w_1, u_1), fmul(w_2, u_2)), fmul(w_3, u_3)), p)

\* u_1..u_3, s_1..s_3 from d_1l(i - 2) .. d_1l(i + 2)
weno_us(dm2, dm1, d0, dp1, dp2, p) ==
    LET one == Lit(1, 0)
        c_1_3   == fdiv(one, Lit(3, 0))
        c_7_6   == fdiv(Lit(7, 0), Lit(6, 0))
        c_11_6  == fdiv(Lit(11, 0), Lit(6, 0))
        c_m1_6  == fdiv(fneg(one), Lit(6, 0))
        c_1_6   == fdiv(one, Lit(6, 0))
        c_5_6   == fdiv(Lit(5, 0), Lit(6, 0))
        c_13_12 == fdiv(Lit(13, 0), Lit(12, 0))
        c_1_4   == fdiv(one, Lit(4, 0))
        u_1 == fadd(fsub(fmul(c_1_3, dm2), fmul(c_7_6, dm1)), fmul(c_11_6, d0))
        u_2 == fadd(fadd(fmul(c_m1_6, dm1), fmul(c_5_6, d0)), fmul(c_1_3, dp1))
        u_3 == fsub(fadd(fmul(c_1_3, d0), fmul(c_5_6, dp1)), fmul(c_1_6, dp2))
        s_1 == fadd(fmul(c_13_12,
                         powi(fadd(fsub(dm2, fmul(Lit(2, 0), dm1)), d0), 2)),
                    fmul(c_1_4,
                         powi(fadd(fsub(dm2, fmul(Lit(4, 0), dm1)),
                                   fmul(Lit(3, 0), d0)), 2)))
        s_2 == fadd(fmul(c_13_12,
                         powi(fadd(fsub(dm1, fmul(Lit(2, 0), d0)), dp1), 2)),
                    fmul(c_1_4, powi(fsub(dm1, dp1), 2)))
        s_3 == fadd(fmul(c_13_12,
                         powi(fadd(fsub(d0, fmul(Lit(2, 0), dp1)), dp2), 2)),
                    fmul(c_1_4,
                         powi(fadd(fsub(fmul(Lit(3, 0), d0),
                                        fmul(Lit(4, 0), dp1)), dp2), 2)))
    IN  weno_w(u_1, u_2, u_3,
               weno_a(Lit(1, -1), s_1), weno_a(Lit(6, -1), s_2),
               weno_a(Lit(3, -1), s_3), p)

\* st_weno with the range 3 <= i < u.len() - 2.
st_weno_wide(i, u, desc) ==
    IF ~(3 <= i) THEN F0
    ELSE IF usub(Len(u), 2) < 0 THEN Panic
    ELSE IF ~(i < usub(Len(u), 2)) THEN F0
    ELSE weno_us(weno_d_1l(u, desc.delta_x, usub(i, 2)),
                 weno_d_1l(u, desc.delta_x, usub(i, 1)),
                 weno_d_1l(u, desc.delta_x, i),
                 weno_d_1l(u, desc.delta_x, i + 1),
                 weno_d_1l(u, desc.delta_x, i + 2),
                 P(desc))

st_weno(i, u, desc) ==
    IF ~(3 <= i) THEN F0
    ELSE IF usub(Len(u), 3) < 0 THEN Panic
    ELSE IF ~(i < usub(Len(u), 3)) THEN F0
    ELSE weno_us(weno_d_1l(u, desc.delta_x, usub(i, 2)),
                 weno_d_1l(u, desc.delta_x, usub(i, 1)),
                 weno_d_1l(u, desc.delta_x, i),
                 weno_d_1l(u, desc.delta_x, i + 1),
                 weno_d_1l(u, desc.delta_x, i + 2),
                 P(desc))

\* st_cip with p = -desc.vel * desc.delta_x.
st_cip_dx(i, u, g, desc) ==
    IF 1 <= i /\ i < Len(u)
    THEN LET dx  == desc.delta_x
             u_i == At(u, i)
             u_m == At(u, usub(i, 1))
             g_i == At(g, i)
             g_m == At(g, usub(i, 1))
             a == fsub(fdiv(fadd(g_i, g_m), powi(dx, 2)),
                       fdiv(fmul(Lit(2, 0), fsub(u_i, u_m)), powi(dx, 3)))
             b == fadd(fdiv(fmul(Lit(3, 0), fsub(u_m, u_i)), powi(dx, 2)),
                       fdiv(fadd(fmul(Lit(2, 0), g_i), g_m), dx))
             c == g_i
             p == fmul(fneg(desc.vel), desc.delta_x)
             f_u == fadd(fadd(fmul(a, powi(p, 3)), fmul(b, powi(p, 2))), fmul(c, p))
             f_g == fadd(fadd(fmul(fmul(Lit(3, 0), a), powi(p, 2)),
                              fmul(fmul(Lit(2, 0), b), p)), c)
         IN  <<f_u, f_g>>
    ELSE <<F0, F0>>

\* The pair (f_u, f_g).
st_cip(i, u, g, desc) ==
    IF 1 <= i /\ i < Len(u)
    THEN LET dx  == desc.delta_x
             u_i == At(u, i)
             u_m == At(u, usub(i, 1))
             g_i == At(g, i)
             g_m == At(g, usub(i, 1))
             a == fsub(fdiv(fadd(g_i, g_m), powi(dx, 2)),
                       fdiv(fmul(Lit(2, 0), fsub(u_i, u_m)), powi(dx, 3)))
             b == fadd(fdiv(fmul(Lit(3, 0), fsub(u_m, u_i)), powi(dx, 2)),
                       fdiv(fadd(fmul(Lit(2, 0), g_i), g_m), dx))
             c == g_i
             p == P(desc)
             f_u == fadd(fadd(fmul(a, powi(p, 3)), fmul(b, powi(p, 2))), fmul(c, p))
             f_g == fadd(fadd(fmul(fmul(Lit(3, 0), a), powi(p, 2)),
                              fmul(fmul(Lit(2, 0), b), p)), c)
         IN  <<f_u, f_g>>
    ELSE <<F0, F0>>

-----------------------------------------------------------------------------
(* Temporal integrators.  The stencil st chosen by forward() is the       *)
(* operator parameter ##: i ## u stands for st(i, u, desc).                *)

\* a / k for a small integer k
fdivk(a, k) == fdiv(a, Lit(k, 0))

\* k * a for a small integer k
fmulk(k, a) == fmul(Lit(k, 0), a)

tt_forward_euler(u, _ ## _, desc) ==
    for_each(u, [i \in Idx(u) |-> fadd(At(u, i), (i ## u))])

tt_rk2(u_0, _ ## _, desc) ==
    LET u_1 == for_each(u_0, [i \in Idx(u_0) |-> fadd(At(u_0, i), (i ## u_0))])
        u_2 == for_each(u_0, [i \in Idx(u_0) |->
                 fdivk(fadd(fadd(fmulk(2, At(u_0, i)), (i ## u_0)),
                            (i ## u_1)), 2)])
    IN  u_2

tt_rk3(u_0, _ ## _, desc) ==
    LET u_1 == for_each(u_0, [i \in Idx(u_0) |-> fadd(At(u_0, i), (i ## u_0))])
        u_2 == for_each(u_0, [i \in Idx(u_0) |->
                 fdivk(fadd(fadd(fmulk(4, At(u_0, i)), (i ## u_0)),
                            (i ## u_1)), 4)])
        u_3 == for_each(u_0, [i \in Idx(u_0) |->
                 fdivk(fadd(fadd(fadd(fmulk(6, At(u_0, i)),
                                      fmulk(1, (i ## u_0))),
                                 fmulk(1, (i ## u_1))),
                            fmulk(4, (i ## u_2))), 6)])
    IN  u_3

tt_rk4(u_0, _ ## _, desc) ==
    LET u_1  == for_each(u_0, [i \in Idx(u_0) |-> fadd(At(u_0, i), (i ## u_0))])
        u_01 == for_each(u_0, [i \in Idx(u_0) |-> fdivk(fadd(At(u_0, i), At(u_1, i)), 2)])
        u_2  == for_each(u_0, [i \in Idx(u_0) |-> fadd(At(u_0, i), (i ## u_01))])
        u_02 == for_each(u_0, [i \in Idx(u_0) |-> fdivk(fadd(At(u_0, i), At(u_2, i)), 2)])
        u_3  == for_each(u_0, [i \in Idx(u_0) |-> fadd(At(u_0, i), (i ## u_02))])
        u_4  == for_each(u_0, [i \in Idx(u_0) |-> fadd(At(u_0, i), (i ## u_3))])
        u_suc == for_each(u_0, [i \in Idx(u_0) |->
                   fdivk(fadd(fadd(fadd(At(u_1, i), fmulk(2, At(u_2, i))),
                                   fmulk(2, At(u_3, i))), At(u_4, i)), 6)])
    IN  u_suc

tt_tvd_rk2(u_0, _ ## _, desc) ==
    LET u_1 == for_each(u_0, [i \in Idx(u_0) |-> fadd(At(u_0, i), (i ## u_0))])
        u_2 == for_each(u_0, [i \in Idx(u_0) |->
                 fdivk(fadd(fadd(At(u_0, i), At(u_1, i)), (i ## u_1)), 2)])
    IN  u_2

tt_tvd_rk3(u_0, _ ## _, desc) ==
    LET u_1 == for_each(u_0, [i \in Idx(u_0) |-> fadd(At(u_0, i), (i ## u_0))])
        u_2 == for_each(u_0, [i \in Idx(u_0) |->
                 fdivk(fadd(fadd(fmulk(3, At(u_0, i)), At(u_1, i)),
                            (i ## u_1)), 4)])
        u_3 == for_each(u_0, [i \in Idx(u_0) |->
                 fdivk(fadd(fadd(At(u_0, i), fmulk(2, At(u_2, i))),
                            fmulk(2, (i ## u_2))), 3)])
    IN  u_3

tt_tvd_rk4(u_0, _ ## _, desc) ==
    LET u_1 == for_each(u_0, [i \in Idx(u_0) |->
                 fdivk(fadd(fmulk(2, At(u_0, i)), (i ## u_0)), 2)])
        u_2 == for_each(u_0, [i \in Idx(u_0) |->
                 fdivk(fadd(fadd(fsub(fmulk(2, At(u_0, i)), (i ## u_0)),
                                 fmulk(2, At(u_1, i))),
                            fmulk(2, (i ## u_1))), 4)])
        u_3 == for_each(u_0, [i \in Idx(u_0) |->
                 fdivk(fadd(fadd(fsub(fadd(fsub(At(u_0, i), (i ## u_0)),
                                           fmulk(2, At(u_1, i))),
                                      fmulk(3, (i ## u_1))),
                                 fmulk(6, At(u_2, i))),
                            fmulk(9, (i ## u_2))), 9)])
        u_4 == for_each(u_0, [i \in Idx(u_0) |->
                 fdivk(fadd(fadd(fadd(fadd(fmulk(2, At(u_1, i)), (i ## u_1)),
                                      fmulk(2, At(u_2, i))),
                                 fmulk(2, At(u_3, i))),
                            (i ## u_3)), 6)])
    IN  u_4

-----------------------------------------------------------------------------
(* Scenario::forward *)

\* One iteration of the CIP loop of forward(): with u, g the clones taken
\* before the loop, write index i of the live arrays of scenario s.
\* The CIP loop pushing f_g onto g_grid where the code assigns g_suc[i].
cip_write_push(s, i, u_i, f) ==
    [s EXCEPT !.u_grid[i + 1] = fadd(u_i, f[1]),
              !.scheme_buffer.g_grid = Append(@, f[2])]

cip_write(s, i, u_i, f) ==
    [s EXCEPT !.u_grid[i + 1] = fadd(u_i, f[1]),
              !.scheme_buffer.g_grid[i + 1] = f[2]]

\* The iteration reading the live arrays where the code reads the clones.
cip_iter_live(s, i, u, g) ==
    cip_write(s, i, At(s.u_grid, i),
              st_cip(i, s.u_grid, s.scheme_buffer.g_grid, s.desc))

cip_iter(s, i, u, g) == cip_write(s, i, At(u, i), st_cip(i, u, g, s.desc))

\* for i in 0..u.len() { ... }, from iteration i on.
RECURSIVE cip_loop(_, _, _, _)
cip_loop(s, i, u, g) ==
    IF i >= Len(u) THEN s ELSE cip_loop(cip_iter(s, i, u, g), i + 1, u, g)

\* The selection with the LaxWendroff arm naming st_upwind.
st_select_slip(scheme, i, u, desc) ==
    CASE scheme = "Central"     -> st_central(i, u, desc)
      [] scheme = "Upwind"      -> st_upwind(i, u, desc)
      [] scheme = "LaxWendroff" -> st_upwind(i, u, desc)
      [] scheme = "ENO"         -> st_eno(i, u, desc)
      [] scheme = "WENO"        -> st_weno(i, u, desc)
      [] OTHER                  -> Panic

\* The stencil selected by `let st = match self.desc.spatial_scheme`.
st_select(scheme, i, u, desc) ==
    CASE scheme = "Central"     -> st_central(i, u, desc)
      [] scheme = "Upwind"      -> st_upwind(i, u, desc)
      [] scheme = "LaxWendroff" -> st_lax_wendroff(i, u, desc)
      [] scheme = "ENO"         -> st_eno(i, u, desc)
      [] scheme = "WENO"        -> st_weno(i, u, desc)
      [] OTHER                  -> Panic

\* The integrator selected by `let tt = match self.desc.temporal_scheme`,
\* applied to u with stencil st.
tt_select(scheme, u, _ ## _, desc) ==
    CASE scheme = "ForwardEuler" -> tt_forward_euler(u, ##, desc)
      [] scheme = "Rk2"          -> tt_rk2(u, ##, desc)
      [] scheme = "Rk3"          -> tt_rk3(u, ##, desc)
      [] scheme = "Rk4"          -> tt_rk4(u, ##, desc)
      [] scheme = "TvdRk2"       -> tt_tvd_rk2(u, ##, desc)
      [] scheme = "TvdRk3"       -> tt_tvd_rk3(u, ##, desc)
      [] scheme = "TvdRk4"       -> tt_tvd_rk4(u, ##, desc)

\* Which arm of forward()'s match a (scheme, buffer) pair takes.
forward_arm(s) ==
    IF s.desc.spatial_scheme \in {"Central", "Upwind", "LaxWendroff", "ENO", "WENO"}
    THEN "temporal"
    ELSE IF s.desc.spatial_scheme = "CIP" /\ s.scheme_buffer.kind = "CIP"
    THEN "cip"
    ELSE "unreachable"

\* Some element of the vector is Panic: the call that computed it panicked.
Panicked(u) == \E k \in 1..Len(u) : IsPanic(u[k])

\* forward(): the scenario after the call and whether the call returned
\* ("ok") or panicked ("panic": unreachable!(), an index out of range or a
\* usize subtraction below zero).
\* self.u_grid = u_suc, unless computing u_suc panicked.
forward_temporal(s, u_suc) ==
    IF Panicked(u_suc)
    THEN [outcome |-> "panic", scenario |-> s]
    ELSE [outcome |-> "ok", scenario |-> [s EXCEPT !.u_grid = u_suc]]

\* t is the scenario after the CIP loop, unless an iteration panicked.
forward_cip(s, t) ==
    IF Panicked(t.u_grid) \/ Panicked(t.scheme_buffer.g_grid)
    THEN [outcome |-> "panic", scenario |-> s]
    ELSE [outcome |-> "ok", scenario |-> t]

forward(s) ==
    IF forward_arm(s) = "temporal"
    THEN forward_temporal(s,
             tt_select(s.desc.temporal_scheme, s.u_grid,
                       LAMBDA i, u : st_select(s.desc.spatial_scheme, i, u, s.desc),
                       s.desc))
    ELSE IF forward_arm(s) = "cip"
    THEN forward_cip(s, cip_loop(s, 0, s.u_grid, s.scheme_buffer.g_grid))
    ELSE [outcome |-> "panic", scenario |-> s]

-----------------------------------------------------------------------------
(* State.                                                                  *)
(*   desc       Body.desc, the descriptor the settings panel edits         *)
(*   scenario   the Option<Scenario> inside the mutex: <<>> or <<s>>       *)
(*   lock       who holds the mutex: "free", "ui" or "step"                *)
(*   step_pc    where the stepping thread is in its loop                   *)
(*   step_loc   the locals of forward()'s CIP loop: i and the clones u, g  *)
(*   ui_pc      where the UI thread is in show()                           *)
(*   label      the text of the status label                               *)
(*   shown      the points last handed to the plot                         *)
(* History, kept to state properties; no action's guard reads it except    *)
(* to cap a counter:                                                       *)
(*   init       the scenario as Scenario::new returned it                  *)
(*   prev       the scenario as it was when the last forward() began       *)
(*   outcome    how the last forward() ended: "none", "ok" or "panic"      *)
(*   steps      forward() calls made on the current scenario               *)
(*   gen        scenarios constructed so far                               *)
(*   committed  the Option<Scenario> as the last complete operation (new,  *)
(*              drop or a finished forward()) left it                      *)
(*   shown_from the value of committed when shown was last read            *)
VARIABLES desc, scenario, lock, step_pc, step_loc, ui_pc, label, shown,
          init, prev, outcome, steps, gen, committed, shown_from

vars == <<desc, scenario, lock, step_pc, step_loc, ui_pc, label, shown,
          init, prev, outcome, steps, gen, committed, shown_from>>

driver_vars == <<desc, lock, step_pc, step_loc, ui_pc, label, shown,
                 gen, committed, shown_from>>

\* forward() calls explored on one scenario.
MaxSteps == 2

\* Grid sizes explored with delta_x = 0.5: n = 0..MaxCells.
MaxCells == 8

NoLoc == [i |-> 0, u |-> <<>>, g |-> <<>>]

\* Descriptor::new
Descriptor_new ==
    Descriptor(Lit(1, 0), Lit(1666, -5), Lit(5, -2), Lit(10, 0), Lit(1, 0),
               "WENO", "ForwardEuler")

\* The state after Body::new and spawn_thread: no scenario, mutex free.
BaseInit ==
    /\ desc = Descriptor_new
    /\ scenario = <<>>
    /\ lock = "free"
    /\ step_pc = "top"
    /\ step_loc = NoLoc
    /\ ui_pc = "idle"
    /\ label = "Inactive"
    /\ shown = <<>>
    /\ init = <<>>
    /\ prev = <<>>
    /\ outcome = "none"
    /\ steps = 0
    /\ gen = 0
    /\ committed = <<>>
    /\ shown_from = <<>>

-----------------------------------------------------------------------------
(* The engine alone: a caller constructs a Scenario from any descriptor    *)
(* and calls forward() on it repeatedly.                                   *)

\* Velocities of either sign and zero.
EngineVels == {Lit(1, 0), F0, fneg(Lit(1, 0))}

\* (delta_x, bound) pairs: n = 0..MaxCells with the pulse at index 1,
\* n = 8 and n = 10 with the pulse at indices 5..n-1, and n = 3 and n = 8
\* with the pulse at index 0.
EngineGrids ==
    {<<Lit(5, -1), Lit(5 * k, -1)>> : k \in 0..MaxCells}
    \cup {<<Lit(1, -1), Lit(8, -1)>>, <<Lit(1, -1), Lit(1, 0)>>}
    \cup {<<Lit(2, 0), Lit(6, 0)>>, <<Lit(2, 0), Lit(16, 0)>>}

\* CIP ignores the temporal scheme, so one is enough for it.
EngineSchemes ==
    ((SpatialScheme \ {"CIP"}) \X TemporalScheme) \cup {<<"CIP", "ForwardEuler">>}

\* For CIP with delta_t = 0 also a grid of n = 10 nodes whose delta_x is so
\* small that its cube underflows.
EngineCipGrids == EngineGrids \cup {<<Lit(1, -110), Lit(1, -109)>>}

\* delta_t = 0.1 with every scheme, and delta_t = 0 with CIP.
EngineDescs ==
    {Descriptor(Lit(1, 0), Lit(1, -1), gr[1], gr[2], v, sc[1], sc[2]) :
        gr \in EngineGrids, v \in EngineVels, sc \in EngineSchemes}
    \cup {Descriptor(Lit(1, 0), F0, gr[1], gr[2], v, "CIP", "ForwardEuler") :
        gr \in EngineCipGrids, v \in EngineVels}

\* let mut s = Scenario::new(d)
EngineNew(d) ==
    /\ scenario = <<>>
    /\ scenario' = <<Scenario_new(d)>>
    /\ init' = scenario'
    /\ prev' = <<>>
    /\ outcome' = "none"
    /\ steps' = 0
    /\ UNCHANGED driver_vars

\* s.forward()
EngineForward ==
    /\ scenario # <<>>
    /\ outcome # "panic"
    /\ steps < MaxSteps
    /\ \E r \in {forward(scenario[1])} :
          /\ scenario' = <<r.scenario>>
          /\ outcome' = r.outcome
    /\ prev' = scenario
    /\ steps' = steps + 1
    /\ UNCHANGED <<init, driver_vars>>

NextEngine ==
    \/ \E d \in EngineDescs : EngineNew(d)
    \/ EngineForward

SpecEngine == BaseInit /\ [][NextEngine]_vars

-----------------------------------------------------------------------------
(* The engine with a caller that also assigns the public field             *)
(* Scenario::desc: the spatial scheme of a constructed scenario is changed *)
(* before its first step, so scheme and buffer variant need not match.     *)

\* Four nodes, every velocity, every pair of schemes.
DispatchDescs ==
    {Descriptor(Lit(1, 0), Lit(1, -1), Lit(5, -1), Lit(2, 0), v, sc[1], sc[2]) :
        v \in EngineVels, sc \in EngineSchemes}

\* s.desc.spatial_scheme = sp
DispatchSetScheme(sp) ==
    /\ scenario # <<>>
    /\ steps = 0
    /\ scenario[1].desc.spatial_scheme = init[1].desc.spatial_scheme
    /\ sp # scenario[1].desc.spatial_scheme
    /\ scenario' = <<[scenario[1] EXCEPT !.desc.spatial_scheme = sp]>>
    /\ UNCHANGED <<init, prev, outcome, steps, driver_vars>>

NextDispatch ==
    \/ \E d \in DispatchDescs : EngineNew(d)
    \/ \E sp \in SpatialScheme : DispatchSetScheme(sp)
    \/ EngineForward

SpecDispatch == BaseInit /\ [][NextDispatch]_vars

-----------------------------------------------------------------------------
(* The program: the UI thread runs Body::show once per frame, the thread   *)
(* of Body::spawn_thread loops forever, and both reach the scenario only   *)
(* through the mutex.  A lock() that finds the mutex held blocks: the      *)
(* action that takes the mutex is enabled only when it is free.            *)

\* Scenarios constructed in one run.
MaxGen == 2

\* The settings the user is taken to choose with the sliders and combo
\* boxes of Descriptor::show_inside (all inside the sliders' ranges): a grid
\* of 6 nodes, time scale 1 or 0, and one plain and the CIP scheme.  "New
\* Scenario" is explored with these settings only.
UiDescs ==
    {Descriptor(ts, Lit(5, -2), Lit(1, -1), Lit(6, -1), Lit(1, 0), sp, "ForwardEuler") :
        ts \in {Lit(1, 0), F0}, sp \in {"Upwind", "CIP"}}

\* Values of instant.elapsed(): less than delta_t, and more.
Elapsed == {Lit(1, -3), Lit(1, 0)}

\* const WAIT_TIME: f64 = 0.001
WAIT_TIME == Lit(1, -3)

\* The points Scenario::show_inside hands to the plot.
show_inside(s) ==
    [k \in 1..Len(s.u_grid) |-> <<fmul(Lit(k - 1, 0), s.desc.delta_x), s.u_grid[k]>>]

\* Duration::from_secs_f64(w) panics unless w is finite and not negative.
duration_ok(w) == IsNumber(w) /\ (w.s = 0 \/ w.m = 0)

\* The settings panel editing a descriptor the running scenario shares.
UiEdit_shared(d) ==
    /\ ui_pc = "idle"
    /\ d # desc
    /\ desc' = d
    /\ scenario' = IF scenario = <<>> THEN <<>>
                   ELSE <<[scenario[1] EXCEPT !.desc = d]>>
    /\ UNCHANGED <<lock, step_pc, step_loc, ui_pc, label, shown,
                   init, prev, outcome, steps, gen, committed, shown_from>>

\* self.desc.show_inside(ui): the user changes the settings.
UiEdit(d) ==
    /\ ui_pc = "idle"
    /\ d # desc
    /\ desc' = d
    /\ UNCHANGED <<scenario, lock, step_pc, step_loc, ui_pc, label, shown,
                   init, prev, outcome, steps, gen, committed, shown_from>>

\* if self.scenario.lock().is_some() { "Active" } else { "Inactive" }
UiStatus ==
    /\ ui_pc = "idle"
    /\ lock = "free"
    /\ label' = IF scenario # <<>> THEN "Active" ELSE "Inactive"
    /\ label' # label
    /\ UNCHANGED <<desc, scenario, lock, step_pc, step_loc, ui_pc, shown,
                   init, prev, outcome, steps, gen, committed, shown_from>>

\* "New Scenario": Scenario::new(self.desc.clone()), then lock().replace().
UiNew ==
    /\ ui_pc = "idle"
    /\ desc \in UiDescs
    /\ gen < MaxGen
    /\ lock = "free"
    /\ scenario' = <<Scenario_new(desc)>>
    /\ init' = scenario'
    /\ committed' = scenario'
    /\ prev' = <<>>
    /\ outcome' = "none"
    /\ steps' = 0
    /\ gen' = gen + 1
    /\ UNCHANGED <<desc, lock, step_pc, step_loc, ui_pc, label, shown, shown_from>>

\* "Drop Scenario": lock().take().
UiDrop ==
    /\ ui_pc = "idle"
    /\ lock = "free"
    /\ scenario # <<>>
    /\ scenario' = <<>>
    /\ init' = <<>>
    /\ committed' = <<>>
    /\ prev' = <<>>
    /\ outcome' = "none"
    /\ steps' = 0
    /\ UNCHANGED <<desc, lock, step_pc, step_loc, ui_pc, label, shown, gen,
                   shown_from>>

\* The plot closure reaching the scenario without waiting for the mutex.
UiPlotLock_unlocked ==
    /\ ui_pc = "idle"
    /\ lock' = "ui"
    /\ ui_pc' = "plot"
    /\ UNCHANGED <<desc, scenario, step_pc, step_loc, label, shown,
                   init, prev, outcome, steps, gen, committed, shown_from>>

\* The plot closure takes the mutex: self.scenario.lock().as_mut().
UiPlotLock ==
    /\ ui_pc = "idle"
    /\ lock = "free"
    /\ lock' = "ui"
    /\ ui_pc' = "plot"
    /\ UNCHANGED <<desc, scenario, step_pc, step_loc, label, shown,
                   init, prev, outcome, steps, gen, committed, shown_from>>

\* scenario.show_inside(ui) if there is a scenario; the guard is dropped.
UiPlotShow ==
    /\ ui_pc = "plot"
    /\ shown' = IF scenario # <<>> THEN show_inside(scenario[1]) ELSE <<>>
    /\ shown_from' = committed
    /\ lock' = "free"
    /\ ui_pc' = "idle"
    /\ UNCHANGED <<desc, scenario, step_pc, step_loc, label,
                   init, prev, outcome, steps, gen, committed>>

\* The loop takes the mutex: scenario.lock().as_mut().
StepLock ==
    /\ step_pc = "top"
    /\ lock = "free"
    /\ scenario = <<>> \/ steps < MaxSteps
    /\ lock' = "step"
    /\ step_pc' = IF scenario = <<>> THEN "wait" ELSE "forward"
    /\ UNCHANGED <<desc, scenario, step_loc, ui_pc, label, shown,
                   init, prev, outcome, steps, gen, committed, shown_from>>

\* scenario.forward(): the temporal arm as a whole (it assigns u_grid once),
\* the entry of the CIP arm (the two clones), or unreachable!().  A panic
\* ends the thread; unwinding drops the guard.
StepForward ==
    /\ step_pc = "forward"
    /\ prev' = scenario
    /\ LET s == scenario[1] IN
       IF forward_arm(s) = "cip"
       THEN /\ step_loc' = [i |-> 0, u |-> s.u_grid, g |-> s.scheme_buffer.g_grid]
            /\ step_pc' = "cip"
            /\ UNCHANGED <<scenario, lock, outcome, steps, committed>>
       ELSE \E r \in {forward(s)} :
            /\ scenario' = <<r.scenario>>
            /\ committed' = scenario'
            /\ outcome' = r.outcome
            /\ steps' = steps + 1
            /\ step_pc' = IF r.outcome = "ok" THEN "sleep" ELSE "dead"
            /\ lock' = IF r.outcome = "ok" THEN lock ELSE "free"
            /\ UNCHANGED step_loc
    /\ UNCHANGED <<desc, ui_pc, label, shown, init, gen, shown_from>>

\* One iteration of the CIP loop: u_suc[i] and g_suc[i] are written into the
\* live arrays.
StepCipIter ==
    /\ step_pc = "cip"
    /\ step_loc.i < Len(step_loc.u)
    /\ scenario' = <<cip_iter(scenario[1], step_loc.i, step_loc.u, step_loc.g)>>
    /\ step_loc' = [step_loc EXCEPT !.i = @ + 1]
    /\ UNCHANGED <<desc, lock, step_pc, ui_pc, label, shown,
                   init, prev, outcome, steps, gen, committed, shown_from>>

\* The CIP loop ends and forward() returns.
StepCipDone ==
    /\ step_pc = "cip"
    /\ step_loc.i >= Len(step_loc.u)
    /\ step_loc' = NoLoc
    /\ committed' = scenario
    /\ outcome' = "ok"
    /\ steps' = steps + 1
    /\ step_pc' = "sleep"
    /\ UNCHANGED <<desc, scenario, lock, ui_pc, label, shown,
                   init, prev, gen, shown_from>>

\* loop_wait = (delta_t - elapsed).max(0.0) / time_scale; sleep; the guard
\* is dropped at the end of the `if let`.  from_secs_f64 panics on a wait
\* that is not finite.
StepSleep(elapsed) ==
    /\ step_pc = "sleep"
    /\ LET d == scenario[1].desc
           loop_wait == fdiv(fmax(fsub(d.delta_t, elapsed), F0), d.time_scale)
       IN  step_pc' = IF duration_ok(loop_wait) THEN "top" ELSE "dead"
    /\ lock' = "free"
    /\ UNCHANGED <<desc, scenario, step_loc, ui_pc, label, shown,
                   init, prev, outcome, steps, gen, committed, shown_from>>

\* No scenario: sleep WAIT_TIME, then the guard is dropped.
StepWait ==
    /\ step_pc = "wait"
    /\ duration_ok(WAIT_TIME)
    /\ lock' = "free"
    /\ step_pc' = "top"
    /\ UNCHANGED <<desc, scenario, step_loc, ui_pc, label, shown,
                   init, prev, outcome, steps, gen, committed, shown_from>>

Next ==
    \/ \E d \in UiDescs : UiEdit(d)
    \/ UiStatus
    \/ UiNew
    \/ UiDrop
    \/ UiPlotLock
    \/ UiPlotShow
    \/ StepLock
    \/ StepForward
    \/ StepCipIter
    \/ StepCipDone
    \/ \E elapsed \in Elapsed : StepSleep(elapsed)
    \/ StepWait

Spec == BaseInit /\ [][Next]_vars


-----------------------------------------------------------------------------
(* Properties of the engine, stated over SpecEngine.                       *)

\* round(x / dx) in exact integer arithmetic, halves away from zero, for
\* positive x and dx.
RoundDiv(x, dx) ==
    LET e0 == Min(x.e, dx.e)
        X  == x.m * Pow10(x.e - e0)
        D  == dx.m * Pow10(dx.e - e0)
    IN  IF x.m = 0 THEN 0
        ELSE IF x.e - dx.e > 9 - Prec THEN Pow10(9)
        ELSE (2 * X + D) \div (2 * D)

\* The field of a scenario that is 1.0 exactly on lo <= i < hi, else 0.0.
IsPulse(u, lo, hi) ==
    \A k \in 1..Len(u) :
        u[k] = IF lo <= k - 1 /\ k - 1 < hi THEN Lit(1, 0) ELSE F0

NegativeVel(d) == ~fle(F0, d.vel)

\* The increment the scenario's scheme computes for index i of its field.
Increment(s, i) ==
    IF s.desc.spatial_scheme = "CIP"
    THEN st_cip(i, s.u_grid, s.scheme_buffer.g_grid, s.desc)[1]
    ELSE st_select(s.desc.spatial_scheme, i, s.u_grid, s.desc)

\* C2 (as amended): for every scheme except Upwind with a negative velocity
\* the increment for index 0 is exactly zero and u[0] keeps its initial
\* value under every integrator; Upwind with vel < 0 takes the forward
\* difference, which updates index 0 and leaves the last index alone.
IndexZeroFixedUnlessUpwindNegative ==
    (scenario # <<>> /\ Len(scenario[1].u_grid) >= 1) =>
        LET s == scenario[1]
            n == Len(s.u_grid)
        IN  IF s.desc.spatial_scheme = "Upwind" /\ NegativeVel(s.desc)
            THEN /\ s.u_grid[n] = init[1].u_grid[n]
                 /\ Increment(s, n - 1) = F0
            ELSE /\ s.u_grid[1] = init[1].u_grid[1]
                 /\ Increment(s, 0) = F0

\* Two steps made, the field has moved, and index 0 still holds the pulse.
IndexZeroKeptWhileFieldMoved ==
    /\ scenario # <<>>
    /\ steps >= 2
    /\ Len(scenario[1].u_grid) >= 3
    /\ ~(scenario[1].desc.spatial_scheme = "Upwind" /\ NegativeVel(scenario[1].desc))
    /\ scenario[1].u_grid[1] = Lit(1, 0)
    /\ scenario[1].u_grid # init[1].u_grid

\* C2 as stated: u[0] keeps its initial value after any number of forward()
\* calls, for every scheme and every velocity.
IndexZeroAlwaysFixed ==
    (scenario # <<>> /\ Len(scenario[1].u_grid) >= 1) =>
        scenario[1].u_grid[1] = init[1].u_grid[1]

\* Arithmetic on whole arrays.
VAdd(u, v) == <<>> \o [k \in 1..Len(u) |-> fadd(u[k], v[k])]
VSub(u, v) == <<>> \o [k \in 1..Len(u) |-> fsub(u[k], v[k])]
VMul(c, u) == <<>> \o [k \in 1..Len(u) |-> fmul(Lit(c, 0), u[k])]
VDiv(u, c) == <<>> \o [k \in 1..Len(u) |-> fdiv(u[k], Lit(c, 0))]

\* The array of increments d(u) of the stencil with the given name.
D(sp, u, dsc) ==
    <<>> \o [k \in 1..Len(u) |->
        CASE sp = "Central"     -> st_central(k - 1, u, dsc)
          [] sp = "Upwind"      -> st_upwind(k - 1, u, dsc)
          [] sp = "LaxWendroff" -> st_lax_wendroff(k - 1, u, dsc)
          [] sp = "ENO"         -> st_eno(k - 1, u, dsc)
          [] sp = "WENO"        -> st_weno(k - 1, u, dsc)]

\* The combination named after each temporal scheme.
NamedCombination(tp, sp, u, dsc) ==
    LET d(v) == D(sp, v, dsc)
        e1 == VAdd(u, d(u))
    IN  CASE tp = "ForwardEuler" -> e1
          [] tp = "Rk2" -> VDiv(VAdd(VAdd(VMul(2, u), d(u)), d(e1)), 2)
          [] tp = "Rk3" ->
               LET u2 == VDiv(VAdd(VAdd(VMul(4, u), d(u)), d(e1)), 4)
               IN  VDiv(VAdd(VAdd(VAdd(VMul(6, u), d(u)), d(e1)), VMul(4, d(u2))), 6)
          [] tp = "Rk4" ->
               LET u2 == VAdd(u, d(VDiv(VAdd(u, e1), 2)))
                   u3 == VAdd(u, d(VDiv(VAdd(u, u2), 2)))
                   u4 == VAdd(u, d(u3))
               IN  VDiv(VAdd(VAdd(VAdd(e1, VMul(2, u2)), VMul(2, u3)), u4), 6)
          [] tp = "TvdRk2" -> VDiv(VAdd(VAdd(u, e1), d(e1)), 2)
          [] tp = "TvdRk3" ->
               LET u2 == VDiv(VAdd(VAdd(VMul(3, u), e1), d(e1)), 4)
               IN  VDiv(VAdd(VAdd(u, VMul(2, u2)), VMul(2, d(u2))), 3)
          [] tp = "TvdRk4" ->
               LET u1 == VDiv(VAdd(VMul(2, u), d(u)), 2)
                   u2 == VDiv(VAdd(VAdd(VSub(VMul(2, u), d(u)), VMul(2, u1)),
                                   VMul(2, d(u1))), 4)
                   u3 == VDiv(VAdd(VAdd(VSub(VAdd(VSub(u, d(u)), VMul(2, u1)),
                                             VMul(3, d(u1))),
                                        VMul(6, u2)),
                                   VMul(9, d(u2))), 9)
               IN  VDiv(VAdd(VAdd(VAdd(VAdd(VMul(2, u1), d(u1)), VMul(2, u2)),
                                  VMul(2, u3)), d(u3)), 6)

\* C3: for every non-CIP spatial scheme and every temporal scheme, one
\* forward() call replaces u by exactly the combination named after the
\* temporal scheme, with d the increments of the stencil named after the
\* spatial scheme.
StepIsNamedCombination ==
    (scenario # <<>> /\ prev # <<>> /\ outcome = "ok"
        /\ scenario[1].desc.spatial_scheme # "CIP") =>
        scenario[1].u_grid =
            NamedCombination(scenario[1].desc.temporal_scheme,
                             scenario[1].desc.spatial_scheme,
                             prev[1].u_grid, scenario[1].desc)

\* A TVD-RK4 step with Lax-Wendroff has moved the field.
NamedCombinationApplied ==
    /\ scenario # <<>>
    /\ prev # <<>>
    /\ outcome = "ok"
    /\ scenario[1].desc.spatial_scheme = "LaxWendroff"
    /\ scenario[1].desc.temporal_scheme = "TvdRk4"
    /\ scenario[1].u_grid # prev[1].u_grid

\* C6: the buffer variant is CIP, with g of the same length n as u, exactly
\* when the spatial scheme is CIP; and after any number of forward() calls
\* the variant, the descriptor and the lengths are as Scenario::new left them.
BufferVariantFixed ==
    scenario # <<>> =>
        LET s == scenario[1]
            n == RoundDiv(s.desc.bound, s.desc.delta_x)
        IN  /\ (s.scheme_buffer.kind = "CIP") <=> (s.desc.spatial_scheme = "CIP")
            /\ Len(s.u_grid) = n
            /\ Len(s.scheme_buffer.g_grid) = IF s.scheme_buffer.kind = "CIP" THEN n ELSE 0
            /\ s.scheme_buffer.kind = init[1].scheme_buffer.kind
            /\ s.desc = init[1].desc

\* A CIP scenario after two steps that changed both u and g.
CipBufferStepped ==
    /\ scenario # <<>>
    /\ steps >= 2
    /\ scenario[1].scheme_buffer.kind = "CIP"
    /\ Len(scenario[1].u_grid) >= 3
    /\ scenario[1].u_grid # init[1].u_grid
    /\ scenario[1].scheme_buffer.g_grid # init[1].scheme_buffer.g_grid

\* The least n for which the scheme's stencil fits at some index.
StencilWidth(sp) ==
    CASE sp \in {"ENO", "WENO"} -> 7
      [] sp \in {"Central", "LaxWendroff"} -> 3
      [] OTHER -> 2

OutsideStencilZero ==
    (scenario # <<>> /\ scenario[1].desc.spatial_scheme \in {"ENO", "WENO"}) =>
        LET s == scenario[1]
            n == Len(s.u_grid)
        IN  /\ \A i \in 0..(n - 1) :
                  (i < 3 \/ i >= n - 3) =>
                      /\ Increment(s, i) = F0
                      /\ s.u_grid[i + 1] = init[1].u_grid[i + 1]
            /\ n < 7 => s.u_grid = init[1].u_grid

\* n = 8 under WENO: indices 3 and 4 have both changed.
OnlyThreeAndFourMoved ==
    /\ scenario # <<>>
    /\ scenario[1].desc.spatial_scheme = "WENO"
    /\ Len(scenario[1].u_grid) = 8
    /\ steps >= 1
    /\ scenario[1].u_grid[4] # init[1].u_grid[4]
    /\ scenario[1].u_grid[5] # init[1].u_grid[5]

\* C10: with Central, ForwardEuler and vel = 0, u is identical to the
\* initial array at every index after any number of forward() calls.
ZeroVelocityInvariance ==
    (scenario # <<>> /\ scenario[1].desc.spatial_scheme = "Central"
        /\ scenario[1].desc.temporal_scheme = "ForwardEuler"
        /\ scenario[1].desc.vel = F0) =>
        scenario[1].u_grid = init[1].u_grid

\* Central, ForwardEuler, vel = 0: two steps on a grid that holds the pulse.
ZeroVelocityStepped ==
    /\ scenario # <<>>
    /\ scenario[1].desc.spatial_scheme = "Central"
    /\ scenario[1].desc.temporal_scheme = "ForwardEuler"
    /\ scenario[1].desc.vel = F0
    /\ steps >= 2
    /\ Len(scenario[1].u_grid) >= 3
    /\ scenario[1].u_grid[2] = Lit(1, 0)

\* CIP with delta_t = 0.
CipAtRest(s) ==
    s.desc.spatial_scheme = "CIP" /\ s.desc.delta_t = F0

\* C11 (as amended): with CIP, delta_t = 0, a finite vel and a delta_x
\* whose cube does not underflow to zero, forward() leaves both u and g
\* unchanged at every index, index 0 included, in every state reachable
\* from Scenario::new.
CipAtRestUnchanged ==
    (scenario # <<>> /\ CipAtRest(scenario[1])
        /\ IsNumber(scenario[1].desc.vel)
        /\ powi(scenario[1].desc.delta_x, 3) # F0) =>
        /\ scenario[1].u_grid = init[1].u_grid
        /\ scenario[1].scheme_buffer.g_grid = init[1].scheme_buffer.g_grid

\* CIP with delta_t = 0 and a velocity, stepped twice on a grid that holds
\* the pulse.
CipAtRestStepped ==
    /\ scenario # <<>>
    /\ CipAtRest(scenario[1])
    /\ scenario[1].desc.vel # F0
    /\ steps >= 2
    /\ outcome = "ok"
    /\ Len(scenario[1].u_grid) >= 3
    /\ scenario[1].u_grid[2] = Lit(1, 0)

\* C11 as stated: with CIP and delta_t = 0, u and g are unchanged in every
\* state reachable from Scenario::new, whatever delta_x is.
CipAtRestUnchangedAnyDx ==
    (scenario # <<>> /\ CipAtRest(scenario[1])) =>
        /\ scenario[1].u_grid = init[1].u_grid
        /\ scenario[1].scheme_buffer.g_grid = init[1].scheme_buffer.g_grid

\* All indices of u updated at once by CIP from the arrays u and g.
CipAllAtOnceU(u, g, dsc) ==
    <<>> \o [k \in 1..Len(u) |-> fadd(u[k], st_cip(k - 1, u, g, dsc)[1])]

\* All indices of g updated at once by CIP from the arrays u and g.
CipAllAtOnceG(u, g, dsc) ==
    <<>> \o [k \in 1..Len(u) |-> st_cip(k - 1, u, g, dsc)[2]]

\* C12: the result of one forward() call equals the update of all indices
\* at once from the arrays as they were before the call (for CIP, whose loop
\* writes u and g back index by index) or before each stage (for the other
\* schemes): no index reads a value already updated in the same step.
StepReadsFrozenSnapshot ==
    (scenario # <<>> /\ prev # <<>> /\ outcome = "ok") =>
        LET s == scenario[1]
            o == prev[1]
        IN  IF s.desc.spatial_scheme = "CIP"
            THEN /\ s.u_grid = CipAllAtOnceU(o.u_grid, o.scheme_buffer.g_grid, s.desc)
                 /\ s.scheme_buffer.g_grid
                        = CipAllAtOnceG(o.u_grid, o.scheme_buffer.g_grid, s.desc)
            ELSE s.u_grid = NamedCombination(s.desc.temporal_scheme,
                                             s.desc.spatial_scheme, o.u_grid, s.desc)

\* A CIP step that changed u at two neighbouring indices, so the second
\* was computed after the first had been written.
CipNeighboursUpdated ==
    /\ scenario # <<>>
    /\ prev # <<>>
    /\ outcome = "ok"
    /\ scenario[1].desc.spatial_scheme = "CIP"
    /\ \E k \in 1..(Len(scenario[1].u_grid) - 1) :
           /\ scenario[1].u_grid[k] # prev[1].u_grid[k]
           /\ scenario[1].u_grid[k + 1] # prev[1].u_grid[k + 1]

\* The scheme and the buffer variant of s do not match.
Mismatched(s) ==
    (s.desc.spatial_scheme = "CIP") # (s.scheme_buffer.kind = "CIP")

\* C7: forward() on a scenario whose spatial scheme and buffer variant do
\* not match ends in a panic; it never completes as a normal step.
\* SpecDispatch violates it: a non-CIP scheme with a CIP buffer takes the
\* first arm of forward()'s match.
MismatchIsFatal ==
    (prev # <<>> /\ Mismatched(prev[1])) => outcome = "panic"

-----------------------------------------------------------------------------
(* Properties of the program, stated over Spec.                            *)

\* The points shown for the contents c of the mutex.
Displayed(c) == IF c = <<>> THEN <<>> ELSE show_inside(c[1])

\* C4: forward() runs only while the stepping thread holds the mutex and
\* the display reads only while the UI thread holds it, so the two never
\* overlap: what the display read is the grid as a complete operation left
\* it (before a step or after it), never a partly updated u or u/g pair.
DisplayNeverOverlapsForward ==
    /\ step_pc \in {"forward", "cip", "sleep", "wait"} => lock = "step"
    /\ ui_pc = "plot" => lock = "ui"
    /\ scenario # committed => step_pc = "cip"
    /\ shown = Displayed(shown_from)

\* The stepping thread is part-way through a CIP step, the live arrays
\* differ from the last complete grid, and the display shows a complete one.
DisplayedDuringCipStep ==
    /\ step_pc = "cip"
    /\ step_loc.i > 0
    /\ scenario # committed
    /\ shown # <<>>
    /\ shown = Displayed(committed)
    /\ steps >= 1

\* C5: the scenario is replaced or dropped only while neither thread holds
\* the mutex, and as a whole (the new one is Scenario::new of the UI's
\* descriptor); an edit of the UI's descriptor changes nothing of a
\* scenario, and between replacements a scenario keeps its descriptor, its
\* grid length and its buffer variant.
ReplaceIsAtomic ==
    [][ /\ (gen' # gen \/ (scenario # <<>> /\ scenario' = <<>>)) =>
              /\ lock = "free" /\ lock' = "free"
              /\ step_pc \in {"top", "dead"}
              /\ ui_pc = "idle"
              /\ scenario' \in {<<>>, <<Scenario_new(desc)>>}
        /\ desc' # desc => scenario' = scenario
        /\ (gen' = gen /\ scenario # <<>> /\ scenario' # <<>>) =>
              /\ scenario'[1].desc = scenario[1].desc
              /\ Len(scenario'[1].u_grid) = Len(scenario[1].u_grid)
              /\ scenario'[1].scheme_buffer.kind = scenario[1].scheme_buffer.kind
              /\ Len(scenario'[1].scheme_buffer.g_grid)
                     = Len(scenario[1].scheme_buffer.g_grid)
      ]_vars

\* A second scenario is running, it has been stepped, and the UI's
\* descriptor has since been edited to something else.
EditedWhileRunning ==
    /\ gen >= 2
    /\ scenario # <<>>
    /\ steps >= 1
    /\ desc # scenario[1].desc
    /\ scenario[1].desc = init[1].desc

\* C13: the stepping thread never stops or panics: for every time_scale
\* the slider allows, 0 included, each iteration computes a finite wait that
\* is not negative, sleeps, releases the mutex and starts the next one.
\* Spec violates it: with time_scale = 0 the wait is inf or NaN and
\* Duration::from_secs_f64 panics.
StepperNeverStops ==
    step_pc # "dead"

=============================================================================
